---------------------------- MODULE Spec2Model ----------------------------
(***************************************************************************)
(* Model of the simulation core of VERSIONS/V0.4.py: PathGraph, Agent,     *)
(* World, Brain and the loop of Simulation.run.                            *)
(*                                                                         *)
(* Units.  The program computes with floats; the model uses exact          *)
(* fixed-point integers:                                                   *)
(*   needs     in thousandths  (10.0  -> 10000, NEED_DECAY 0.006 -> 6)     *)
(*   health    in hundredths   (100.0 -> 10000, 0.03 -> 3, 0.01 -> 1)      *)
(*   positions in tenths of a pixel (MOVE_SPEED 5.0 -> 50)                 *)
(* Waypoints and rectangles are whole pixels in the program and are        *)
(* converted with Px.                                                      *)
(***************************************************************************)
EXTENDS Integers, Sequences, FiniteSets, TLC

(***************************************************************************)
(* Config (lines 18-29) and the literals of Agent._zone_effect and         *)
(* Agent._health_check.                                                    *)
(***************************************************************************)
AI_THINK_INTERVAL == 90
MOVE_SPEED == 50
NEED_DECAY == 6
CRITICAL == 2500
MAX_HEALTH == 10000
NEED_MAX == 10000
HEALTH_LOSS == 3
HEALTH_REGEN == 1
NEAREST == 4

Px(n) == 10 * n

(***************************************************************************)
(* Bounds of the model.                                                    *)
(***************************************************************************)
\* last tick of the short horizon (specification Spec)
MaxTick == 184
\* last tick of the long horizon (specification SpecLife)
LifeMaxTick == 1450
\* first tick at which the decision service answers with content in SpecLife
ServiceFrom == 1425
\* last tick of the horizon of the fair specification FairSpec
FairMaxTick == 93
\* last tick of the simulation in SpecApi
ApiMaxTick == 184

\* held-needs runs: number of ticks, the health missing at the start of a
\* fed agent, and the health of a frail agent (hundredths)
HeldMaxTick == 36

HeldDeficit == 24

HeldFrail == 30

\* route runs: number of ticks, and the last tick at which the decision
\* service still answers
RouteMaxTick == 400

RouteServiceUntil == 180

None == "none"

Max(a, b) == IF a >= b THEN a ELSE b
Min(a, b) == IF a <= b THEN a ELSE b

Range(s) == {s[i] : i \in 1..Len(s)}

Contains(s, e) == \E i \in 1..Len(s) : s[i] = e

\* F applied to the value of v: v is evaluated once, before F is entered
Then(v, F(_)) == CHOOSE y \in {F(x) : x \in {v}} : TRUE

(***************************************************************************)
(* ZoneType, Goal, ZONE_FOR_GOAL, ZONE_EFFECTS, NEED_NAMES.                *)
(***************************************************************************)
ZoneType == {"home", "work", "cafe", "park", "road"}

Goal == {"idle", "go_home", "go_work", "go_cafe", "go_park"}

ZONE_FOR_GOAL ==
    [go_home |-> "home", go_work |-> "work", go_cafe |-> "cafe", go_park |-> "park"]

\* iteration order of the needs dict built in Agent.__post_init__
NeedKeys == <<"hunger", "energy", "social", "work">>

NoEffect == [hunger |-> 0, energy |-> 0, social |-> 0, work |-> 0]

\* per-need bonus of a zone type; a need the type does not list gets 0 and
\* is left alone by ZoneEffect
ZONE_EFFECTS ==
    [home |-> [NoEffect EXCEPT !.energy = 120],
     work |-> [NoEffect EXCEPT !.work = 150],
     cafe |-> [NoEffect EXCEPT !.hunger = 180, !.social = 80],
     park |-> [NoEffect EXCEPT !.energy = 60, !.social = 100],
     road |-> NoEffect]

\* NEED_NAMES maps the need key to its display name (Cyrillic in the source,
\* transliterated here)
NEED_NAMES ==
    [hunger |-> "Golod", energy |-> "Energiya", social |-> "Obshchenie", work |-> "Rabota"]

(***************************************************************************)
(* World._make_zones: name, type and pygame.Rect(left, top, width, height) *)
(***************************************************************************)
MkZone(n, t, x, y, w, h) == [name |-> n, type |-> t, x |-> x, y |-> y, w |-> w, h |-> h]

Zones ==
    << MkZone("home_a", "home", 50, 70, 130, 130),
       MkZone("home_b", "home", 50, 260, 130, 130),
       MkZone("home_c", "home", 50, 450, 130, 130),
       MkZone("office", "work", 700, 140, 200, 180),
       MkZone("cafe", "cafe", 400, 70, 170, 150),
       MkZone("park", "park", 400, 450, 260, 180),
       MkZone("road", "road", 260, 0, 50, 700) >>

\* Zone.center = rect.center = (left + width // 2, top + height // 2)
Center(z) == <<z.x + (z.w \div 2), z.y + (z.h \div 2)>>

\* pygame.Rect.collidepoint: left <= x < right and top <= y < bottom
CollidePoint(z, p) ==
    /\ Px(z.x) <= p[1] /\ p[1] < Px(z.x + z.w)
    /\ Px(z.y) <= p[2] /\ p[2] < Px(z.y + z.h)

ZoneNames(zs) == [i \in 1..Len(zs) |-> zs[i].name]

ZoneNamed(zs, n) == zs[CHOOSE i \in 1..Len(zs) : zs[i].name = n]

\* Python's string order on the zone names (the tie-break of the sorted
\* (distance, name) tuples in PathGraph.__init__)
NameOrder ==
    <<"cafe", "e1", "e2", "e3", "e4", "e5", "home_a", "home_b", "home_c",
      "office", "park", "road", "w1", "w2", "w3", "w4", "w5">>

NameRank(n) == CHOOSE i \in 1..Len(NameOrder) : NameOrder[i] = n


(***************************************************************************)
(* PathGraph.  The graph of a zone list zs is the pair of dicts pos, adj;  *)
(* adj keeps each neighbour list in the order the constructor appends.     *)
(***************************************************************************)
RECURSIVE GraphPos(_)
\* lines 107-108: self.pos[z.name] = z.center, a later zone of the same name
\* overwriting an earlier one
GraphPos(zs) ==
    IF zs = <<>> THEN <<>>
    ELSE LET z == zs[Len(zs)]
         IN  (z.name :> Center(z)) @@ GraphPos(SubSeq(zs, 1, Len(zs) - 1))

RECURSIVE EmptyAdj(_)
\* line 109: self.adj[z.name] = []
EmptyAdj(zs) ==
    IF zs = <<>> THEN <<>>
    ELSE (zs[Len(zs)].name :> <<>>) @@ EmptyAdj(SubSeq(zs, 1, Len(zs) - 1))

\* math.hypot orders pairs of points as the squared distance does
Dist2(p, q) == (p[1] - q[1]) * (p[1] - q[1]) + (p[2] - q[2]) * (p[2] - q[2])

\* (hypot(a, b1), b1) < (hypot(a, b2), b2) as Python compares the tuples
DistLess(pos, a, b1, b2) ==
    \/ Dist2(pos[a], pos[b1]) < Dist2(pos[a], pos[b2])
    \/ /\ Dist2(pos[a], pos[b1]) = Dist2(pos[a], pos[b2])
       /\ NameRank(b1) < NameRank(b2)

RECURSIVE SortByDist(_, _, _)
\* sorted([(hypot(...), b) for b in names if a != b]), names only
SortByDist(pos, a, others) ==
    IF others = {} THEN <<>>
    ELSE LET first == CHOOSE b \in others :
                          \A c \in others \ {b} : DistLess(pos, a, b, c)
         IN  <<first>> \o SortByDist(pos, a, others \ {first})

Take(s, n) == SubSeq(s, 1, Min(n, Len(s)))

\* the edge appended to adj[a] only
AddEdge_one_way(adj, a, nb) ==
    IF Contains(adj[a], nb) THEN adj ELSE [adj EXCEPT ![a] = Append(@, nb)]

\* lines 118-121: append nb to adj[a] and a to adj[nb] unless already there
AddEdge(adj, a, nb) ==
    LET adj1 == IF Contains(adj[a], nb) THEN adj
                ELSE [adj EXCEPT ![a] = Append(@, nb)]
    IN  IF Contains(adj1[nb], a) THEN adj1
        ELSE [adj1 EXCEPT ![nb] = Append(@, a)]

RECURSIVE AddEdges(_, _, _)
AddEdges(adj, a, nbs) ==
    IF nbs = <<>> THEN adj
    ELSE AddEdges(AddEdge(adj, a, Head(nbs)), a, Tail(nbs))

RECURSIVE BuildAdj(_, _, _)
\* the loop "for a in names" over the names still to visit
BuildAdj(pos, adj, names) ==
    IF names = <<>> THEN adj
    ELSE LET a == Head(names)
             dists == SortByDist(pos, a, DOMAIN pos \ {a})
             next == AddEdges(adj, a, Take(dists, NEAREST))
         IN  \* the keys never change; the test has TLC evaluate next here,
             \* before it descends
             IF DOMAIN next = DOMAIN adj THEN BuildAdj(pos, next, Tail(names))
             ELSE next

\* PathGraph.__init__
GraphAdj(zs) ==
    BuildAdj(GraphPos(zs), EmptyAdj(zs), ZoneNames(zs))

RECURSIVE Expand_depth_first(_, _, _, _)
\* the new paths put at the front of the queue (a stack: depth first)
Expand_depth_first(nbs, path, queue, seen) ==
    IF nbs = <<>> THEN [queue |-> queue, seen |-> seen]
    ELSE IF Head(nbs) \in seen
    THEN Expand_depth_first(Tail(nbs), path, queue, seen)
    ELSE Expand_depth_first(Tail(nbs), path,
                            <<Append(path, Head(nbs))>> \o queue,
                            seen \cup {Head(nbs)})

RECURSIVE Expand(_, _, _, _)
\* lines 134-137: the neighbours of the popped path's last node, in order
Expand(nbs, path, queue, seen) ==
    IF nbs = <<>> THEN [queue |-> queue, seen |-> seen]
    ELSE IF Head(nbs) \in seen THEN Expand(Tail(nbs), path, queue, seen)
    ELSE Expand(Tail(nbs), path, Append(queue, Append(path, Head(nbs))),
                seen \cup {Head(nbs)})

RECURSIVE Bfs(_, _, _, _)
\* the while loop of find; <<>> when the queue runs empty
Bfs(adj, queue, seen, end) ==
    IF queue = <<>> THEN <<>>
    ELSE LET path == Head(queue)
             last == path[Len(path)]
         IN  IF last = end THEN path
             ELSE LET e == Expand(adj[last], path, Tail(queue), seen)
                  IN  Bfs(adj, e.queue, e.seen, end)

\* the zone names find walks through (the fall-back is the pair start, end)
FindNames(adj, start, end) ==
    IF start = end THEN <<start>>
    ELSE LET p == Bfs(adj, <<<<start>>>>, {start}, end)
         IN  IF p = <<>> THEN <<start, end>> ELSE p

\* PathGraph.find: the centers of the zones on the way
Find(pos, adj, start, end) ==
    LET names == FindNames(adj, start, end)
    IN  [i \in 1..Len(names) |-> pos[names[i]]]

\* World.__init__: self.graph = PathGraph(self.zones)
WorldPos == GraphPos(Zones)

WorldAdj == GraphAdj(Zones)

\* World.zone_by_type: the first zone of the type, None if there is none
zone_by_type(zs, zt) ==
    IF \E i \in 1..Len(zs) : zs[i].type = zt
    THEN zs[CHOOSE i \in 1..Len(zs) :
                /\ zs[i].type = zt
                /\ \A j \in 1..(i - 1) : zs[j].type # zt].name
    ELSE None

(***************************************************************************)
(* Agent.  A record with the fields of the dataclass (thought is never     *)
(* written by the core and is left out); zone and target hold a zone name  *)
(* or None; path_i counts from 0 as in the source, so the next waypoint is *)
(* path[path_i + 1] here.                                                  *)
(***************************************************************************)
AgentOrder == <<"A", "B", "C">>

AgentIds == Range(AgentOrder)

\* World._make_agents: homes = the HOME zones in list order, one per agent
Homes == SelectSeq(Zones, LAMBDA z : z.type = "home")

HomeOf(id) == Homes[CHOOSE i \in 1..Len(AgentOrder) : AgentOrder[i] = id].name

\* Agent.__post_init__ with the needs n drawn by random.uniform
NewAgent(id, n) ==
    [id |-> id, home |-> HomeOf(id),
     pos |-> <<Px(WorldPos[HomeOf(id)][1]), Px(WorldPos[HomeOf(id)][2])>>,
     zone |-> HomeOf(id), health |-> MAX_HEALTH, alive |-> TRUE,
     death_reason |-> "", needs |-> n, goal |-> "idle", target |-> None,
     path |-> <<>>, path_i |-> 0, wait |-> 0]

\* Agent._decay
decay(a) ==
    [a EXCEPT !.needs = [k \in DOMAIN a.needs |-> Max(0, a.needs[k] - NEED_DECAY)]]

\* zone_effect without the cap min(10.0, ...)
zone_effect_uncapped(a) ==
    IF a.zone = None THEN a
    ELSE LET eff == ZONE_EFFECTS[ZoneNamed(Zones, a.zone).type]
         IN  [a EXCEPT !.needs = [k \in DOMAIN a.needs |-> a.needs[k] + eff[k]]]

\* Agent._zone_effect
zone_effect(a) ==
    IF a.zone = None THEN a
    ELSE LET eff == ZONE_EFFECTS[ZoneNamed(Zones, a.zone).type]
         IN  [a EXCEPT !.needs =
                 [k \in DOMAIN a.needs |->
                     IF eff[k] > 0 THEN Min(NEED_MAX, a.needs[k] + eff[k])
                     ELSE a.needs[k]]]

\* the last key, in dict order, that holds the least value
LowestNeed_last(n) ==
    NeedKeys[CHOOSE i \in 1..Len(NeedKeys) :
                 /\ \A j \in 1..Len(NeedKeys) : n[NeedKeys[i]] <= n[NeedKeys[j]]
                 /\ \A j \in (i + 1)..Len(NeedKeys) : n[NeedKeys[j]] > n[NeedKeys[i]]]

\* min(self.needs, key=self.needs.get): the first key, in dict order, that
\* holds the least value
LowestNeed(n) ==
    NeedKeys[CHOOSE i \in 1..Len(NeedKeys) :
                 /\ \A j \in 1..Len(NeedKeys) : n[NeedKeys[i]] <= n[NeedKeys[j]]
                 /\ \A j \in 1..(i - 1) : n[NeedKeys[j]] > n[NeedKeys[i]]]

\* _health_check that counts a need at the threshold as critical
health_check_at_threshold(a) ==
    LET crit_count == Cardinality({k \in DOMAIN a.needs : a.needs[k] <= CRITICAL})
        h == IF crit_count > 0 THEN a.health - HEALTH_LOSS * crit_count
             ELSE Min(MAX_HEALTH, a.health + HEALTH_REGEN)
    IN  IF h <= 0
        THEN [a EXCEPT !.alive = FALSE, !.health = 0,
                       !.death_reason = NEED_NAMES[LowestNeed(a.needs)],
                       !.path = <<>>]
        ELSE [a EXCEPT !.health = h]

\* Agent._health_check
health_check(a) ==
    LET crit_count == Cardinality({k \in DOMAIN a.needs : a.needs[k] < CRITICAL})
        h == IF crit_count > 0 THEN a.health - HEALTH_LOSS * crit_count
             ELSE Min(MAX_HEALTH, a.health + HEALTH_REGEN)
    IN  IF h <= 0
        THEN [a EXCEPT !.alive = FALSE, !.health = 0,
                       !.death_reason = NEED_NAMES[LowestNeed(a.needs)],
                       !.path = <<>>]
        ELSE [a EXCEPT !.health = h]

RECURSIVE IsqrtIn(_, _, _)
\* the largest r in lo..hi with r * r <= n
IsqrtIn(n, lo, hi) ==
    IF lo >= hi THEN lo
    ELSE LET Half(mid) == IF mid * mid <= n THEN IsqrtIn(n, mid, hi)
                          ELSE IsqrtIn(n, lo, mid - 1)
         IN  Then((lo + hi + 1) \div 2, Half)

\* math.hypot on fixed-point coordinates, rounded down (coordinates stay
\* below 2^15, so the squares fit)
Hypot(dx, dy) == IsqrtIn(dx * dx + dy * dy, 0, 32767)

\* a / b rounded to the nearest integer, b > 0
RoundDiv(a, b) ==
    IF a >= 0 THEN (2 * a + b) \div (2 * b) ELSE -((2 * (-a) + b) \div (2 * b))

\* _move that leaves the goal as it is at the end of the path
move_keeps_goal(a) ==
    IF a.path = <<>> \/ a.path_i >= Len(a.path) THEN a
    ELSE LET tx == Px(a.path[a.path_i + 1][1])
             ty == Px(a.path[a.path_i + 1][2])
             dx == tx - a.pos[1]
             dy == ty - a.pos[2]
         IN  IF dx * dx + dy * dy < MOVE_SPEED * MOVE_SPEED
             THEN IF a.path_i + 1 >= Len(a.path)
                  THEN [a EXCEPT !.pos = <<tx, ty>>, !.path_i = a.path_i + 1,
                                 !.path = <<>>, !.wait = 0]
                  ELSE [a EXCEPT !.pos = <<tx, ty>>, !.path_i = a.path_i + 1]
             ELSE LET dist == Hypot(dx, dy)
                  IN  [a EXCEPT !.pos = <<a.pos[1] + RoundDiv(dx * MOVE_SPEED, dist),
                                          a.pos[2] + RoundDiv(dy * MOVE_SPEED, dist)>>]

\* _move that leaves the path in place at its end
move_keeps_path(a) ==
    IF a.path = <<>> \/ a.path_i >= Len(a.path) THEN a
    ELSE LET tx == Px(a.path[a.path_i + 1][1])
             ty == Px(a.path[a.path_i + 1][2])
             dx == tx - a.pos[1]
             dy == ty - a.pos[2]
         IN  IF dx * dx + dy * dy < MOVE_SPEED * MOVE_SPEED
             THEN IF a.path_i + 1 >= Len(a.path)
                  THEN [a EXCEPT !.pos = <<tx, ty>>, !.path_i = a.path_i + 1,
                                 !.goal = "idle", !.wait = 0]
                  ELSE [a EXCEPT !.pos = <<tx, ty>>, !.path_i = a.path_i + 1]
             ELSE LET dist == Hypot(dx, dy)
                  IN  [a EXCEPT !.pos = <<a.pos[1] + RoundDiv(dx * MOVE_SPEED, dist),
                                          a.pos[2] + RoundDiv(dy * MOVE_SPEED, dist)>>]

\* Agent._move
move(a) ==
    IF a.path = <<>> \/ a.path_i >= Len(a.path) THEN a
    ELSE LET tx == Px(a.path[a.path_i + 1][1])
             ty == Px(a.path[a.path_i + 1][2])
             dx == tx - a.pos[1]
             dy == ty - a.pos[2]
         IN  IF dx * dx + dy * dy < MOVE_SPEED * MOVE_SPEED
             THEN IF a.path_i + 1 >= Len(a.path)
                  THEN [a EXCEPT !.pos = <<tx, ty>>, !.path_i = a.path_i + 1,
                                 !.path = <<>>, !.goal = "idle", !.wait = 0]
                  ELSE [a EXCEPT !.pos = <<tx, ty>>, !.path_i = a.path_i + 1]
             ELSE LET dist == Hypot(dx, dy)
                  IN  [a EXCEPT !.pos = <<a.pos[1] + RoundDiv(dx * MOVE_SPEED, dist),
                                          a.pos[2] + RoundDiv(dy * MOVE_SPEED, dist)>>]

\* Agent._detect_zone: the first zone whose rectangle holds the position
detect_zone(a) ==
    IF \E i \in 1..Len(Zones) : CollidePoint(Zones[i], a.pos)
    THEN [a EXCEPT !.zone =
             Zones[CHOOSE i \in 1..Len(Zones) :
                       /\ CollidePoint(Zones[i], a.pos)
                       /\ \A j \in 1..(i - 1) : ~CollidePoint(Zones[j], a.pos)].name]
    ELSE [a EXCEPT !.zone = None]

\* lines 211-212: the idle-wait counter grows while the goal is IDLE
idle_wait(a) == IF a.goal = "idle" THEN [a EXCEPT !.wait = a.wait + 1] ELSE a

\* tick without the early return for a dead agent
tick_dead_too(a) ==
    Then(Then(Then(Then(Then(decay(a), zone_effect), health_check), move),
              detect_zone), idle_wait)

\* Agent.tick
tick(a) ==
    IF ~a.alive THEN a
    ELSE Then(Then(Then(Then(Then(decay(a), zone_effect), health_check), move),
                   detect_zone), idle_wait)

\* assign(IDLE, ...) that leaves the path in place
assign_idle_keeps_path(a, goal, target) ==
    IF ~a.alive THEN a
    ELSE IF goal = "idle"
    THEN [a EXCEPT !.goal = "idle", !.target = None]
    ELSE IF a.zone # None /\ target # None /\ a.zone = target THEN a
    ELSE IF a.goal = goal /\ a.target = target /\ a.path # <<>> THEN a
    ELSE IF target # None
    THEN [a EXCEPT !.goal = goal, !.target = target, !.wait = 0,
                   !.path = Find(WorldPos, WorldAdj,
                                 IF a.zone # None THEN a.zone ELSE a.home, target),
                   !.path_i = 0]
    ELSE [a EXCEPT !.goal = goal, !.target = target, !.wait = 0]

\* assign without the return for the same goal and target in progress
assign_restarts(a, goal, target) ==
    IF ~a.alive THEN a
    ELSE IF goal = "idle"
    THEN [a EXCEPT !.goal = "idle", !.target = None, !.path = <<>>]
    ELSE IF a.zone # None /\ target # None /\ a.zone = target THEN a
    ELSE IF target # None
    THEN [a EXCEPT !.goal = goal, !.target = target, !.wait = 0,
                   !.path = Find(WorldPos, WorldAdj,
                                 IF a.zone # None THEN a.zone ELSE a.home, target),
                   !.path_i = 0]
    ELSE [a EXCEPT !.goal = goal, !.target = target, !.wait = 0]

\* assign that always starts the route at the agent's home
assign_from_home(a, goal, target) ==
    IF ~a.alive THEN a
    ELSE IF goal = "idle"
    THEN [a EXCEPT !.goal = "idle", !.target = None, !.path = <<>>]
    ELSE IF a.zone # None /\ target # None /\ a.zone = target THEN a
    ELSE IF a.goal = goal /\ a.target = target /\ a.path # <<>> THEN a
    ELSE IF target # None
    THEN [a EXCEPT !.goal = goal, !.target = target, !.wait = 0,
                   !.path = Find(WorldPos, WorldAdj, a.home, target),
                   !.path_i = 0]
    ELSE [a EXCEPT !.goal = goal, !.target = target, !.wait = 0]

\* assign without the return for an agent already inside the target zone
assign_inside_too(a, goal, target) ==
    IF ~a.alive THEN a
    ELSE IF goal = "idle"
    THEN [a EXCEPT !.goal = "idle", !.target = None, !.path = <<>>]
    ELSE IF a.goal = goal /\ a.target = target /\ a.path # <<>> THEN a
    ELSE IF target # None
    THEN [a EXCEPT !.goal = goal, !.target = target, !.wait = 0,
                   !.path = Find(WorldPos, WorldAdj,
                                 IF a.zone # None THEN a.zone ELSE a.home, target),
                   !.path_i = 0]
    ELSE [a EXCEPT !.goal = goal, !.target = target, !.wait = 0]

\* Agent.assign
assign(a, goal, target) ==
    IF ~a.alive THEN a
    ELSE IF goal = "idle"
    THEN [a EXCEPT !.goal = "idle", !.target = None, !.path = <<>>]
    ELSE IF a.zone # None /\ target # None /\ a.zone = target THEN a
    ELSE IF a.goal = goal /\ a.target = target /\ a.path # <<>> THEN a
    ELSE IF target # None
    THEN [a EXCEPT !.goal = goal, !.target = target, !.wait = 0,
                   !.path = Find(WorldPos, WorldAdj,
                                 IF a.zone # None THEN a.zone ELSE a.home, target),
                   !.path_i = 0]
    ELSE [a EXCEPT !.goal = goal, !.target = target, !.wait = 0]

(***************************************************************************)
(* Response text.  A text is a sequence of chunks, each one of             *)
(*   txt  commentary holding no brace,                                     *)
(*   lb   a lone "{",        rb   a lone "}",                              *)
(*   obj  the text of one well-formed JSON object, "{" ... "}", given by   *)
(*        its entries in order (keys distinct).                            *)
(* The value of an entry is a JSON object with a string "goal", a JSON     *)
(* object without "goal", or a JSON string.  The empty text is <<>>.       *)
(***************************************************************************)
Txt(s) == [k |-> "txt", s |-> s, entries |-> <<>>]

LB == [k |-> "lb", s |-> "{", entries |-> <<>>]

RB == [k |-> "rb", s |-> "}", entries |-> <<>>]

Obj(es) == [k |-> "obj", s |-> "", entries |-> es]

GoalAct(g) == [dict |-> TRUE, has_goal |-> TRUE, goal |-> g]

EmptyAct == [dict |-> TRUE, has_goal |-> FALSE, goal |-> ""]

StrAct(g) == [dict |-> FALSE, has_goal |-> FALSE, goal |-> g]

Entry(key, act) == [key |-> key, act |-> act]

\* the texts the decision service answers with
Responses ==
    { <<Txt("blah"), Obj(<<Entry("A", GoalAct("go_cafe"))>>), Txt("blah")>>,
      <<Txt("I cannot help")>>,
      <<Obj(<<Entry("Z", GoalAct("go_work")), Entry("A", EmptyAct)>>)>>,
      <<Obj(<<Entry("Z", GoalAct("go_work")), Entry("A", GoalAct("idle")),
              Entry("B", GoalAct("fly")), Entry("C", GoalAct(" GO_PARK "))>>)>>,
      <<Txt("ok"), Obj(<<Entry("A", GoalAct("go_cafe"))>>), Txt("or"),
        Obj(<<Entry("B", GoalAct("go_park"))>>)>>,
      <<Obj(<<Entry("A", GoalAct("go_work")), Entry("Z", GoalAct("go_work")),
              Entry("B", StrAct("go_park")), Entry("C", GoalAct("go_park"))>>)>>,
      <<Obj(<<Entry("C", GoalAct("go_home"))>>)>>,
      <<Obj(<<Entry("B", GoalAct("go_work"))>>)>>,
      <<LB, Txt("not json"), RB>> }

\* str(e) of the exceptions decide() catches
HttpError == <<Txt("HTTP 500")>>

TimeoutError == <<>>

AttributeError == <<Txt("'str' object has no attribute 'get'")>>

HasOpen(c) == c.k \in {"lb", "obj"}

HasClose(c) == c.k \in {"rb", "obj"}

\* re.search(r"\{[\s\S]*\}", text): the match runs from the first "{" to the
\* last "}" of the text (the star is greedy); no match when no "}" follows
\* the first "{"
ReSearch(text) ==
    LET opens == {i \in 1..Len(text) : HasOpen(text[i])}
        first == CHOOSE i \in opens : \A j \in opens : i <= j
        closes == {i \in 1..Len(text) :
                      /\ HasClose(text[i])
                      /\ i > first \/ (i = first /\ text[i].k = "obj")}
        last == CHOOSE i \in closes : \A j \in closes : j <= i
    IN  IF opens = {} \/ closes = {} THEN [found |-> FALSE, group |-> <<>>]
        ELSE [found |-> TRUE, group |-> SubSeq(text, first, last)]

\* json.loads of a match: it begins with "{" and ends with "}", and is valid
\* JSON exactly when it is the text of one object
JsonLoads(group) ==
    IF Len(group) = 1 /\ group[1].k = "obj"
    THEN [ok |-> TRUE, data |-> group[1].entries]
    ELSE [ok |-> FALSE, data |-> <<>>]

\* str.strip().lower() on the goal strings the responses carry
StripLower(g) == IF g = " GO_PARK " THEN "go_park" ELSE g

\* goal_map.get(raw_goal)
goal_map(raw_goal) == IF raw_goal \in Goal THEN raw_goal ELSE None

\* the target taken from zone_by_type for GO_HOME as well
ResolveTarget_by_type(a, goal) ==
    zone_by_type(Zones, ZONE_FOR_GOAL[goal])

\* lines 438-441: the zone a goal resolves to for an agent
ResolveTarget(a, goal) ==
    IF goal = "go_home" THEN a.home ELSE zone_by_type(Zones, ZONE_FOR_GOAL[goal])

Step(aid, outcome, goal, target) ==
    [aid |-> aid, outcome |-> outcome, goal |-> goal, target |-> target]

\* one iteration of the loop of _parse (lines 417-444) on entry e: the agents
\* after it and what the iteration did ("raised": act.get on a value that is
\* no dict raises AttributeError)
ParseEntry(ags, e) ==
    IF e.key \notin DOMAIN ags
    THEN [agents |-> ags, step |-> Step(e.key, "unknown", None, None)]
    ELSE IF ~ags[e.key].alive
    THEN [agents |-> ags, step |-> Step(e.key, "dead", None, None)]
    ELSE IF ~e.act.dict
    THEN [agents |-> ags, step |-> Step(e.key, "raised", None, None)]
    ELSE LET raw_goal == StripLower(IF e.act.has_goal THEN e.act.goal ELSE "")
             goal == goal_map(raw_goal)
         IN  IF goal = None
             THEN [agents |-> ags, step |-> Step(e.key, "no_goal", None, None)]
             ELSE IF goal = "idle"
             THEN [agents |-> ags, step |-> Step(e.key, "idle", goal, None)]
             ELSE LET target == ResolveTarget(ags[e.key], goal)
                  IN  IF target = None
                      THEN [agents |-> ags,
                            step |-> Step(e.key, "no_target", goal, None)]
                      ELSE [agents |-> [ags EXCEPT ![e.key] = assign(@, goal, target)],
                            step |-> Step(e.key, "assign", goal, target)]

RECURSIVE ParseEntries(_, _, _)
\* the loop of _parse over the entries still to visit; it stops at the
\* entry that raises
ParseEntries(ags, entries, steps) ==
    IF entries = <<>> THEN [agents |-> ags, steps |-> steps, raised |-> FALSE]
    ELSE LET r == ParseEntry(ags, Head(entries))
         IN  IF r.step.outcome = "raised"
             THEN [agents |-> r.agents, steps |-> Append(steps, r.step),
                   raised |-> TRUE]
             ELSE ParseEntries(r.agents, Tail(entries), Append(steps, r.step))

\* Brain._parse: the agents afterwards, how it ended and what each iteration did
parse(ags, text) ==
    LET m == ReSearch(text)
        j == JsonLoads(m.group)
        r == ParseEntries(ags, j.data, <<>>)
    IN  IF ~m.found THEN [agents |-> ags, result |-> "no_match", steps |-> <<>>]
        ELSE IF ~j.ok THEN [agents |-> ags, result |-> "bad_json", steps |-> <<>>]
        ELSE [agents |-> r.agents,
              result |-> IF r.raised THEN "raised" ELSE "parsed",
              steps |-> r.steps]

(***************************************************************************)
(* State.                                                                  *)
(*   agents      World.agents, id -> Agent                                 *)
(*   tick_count  World.tick_count                                          *)
(*   busy, raw   Brain.busy, Brain.raw                                     *)
(*   spawned     a decide() task created by Simulation.run (line 593) that *)
(*               has not run yet                                           *)
(*   inflight    number of requests posted by _ask and not yet finished    *)
(*   prompted    ids of the agents listed in the prompt of the last        *)
(*               request (line 365)                                        *)
(*   last_round  how the last finished round ended and what each iteration *)
(*               of _parse did in it (a record of the run, read by no      *)
(*               operation)                                                *)
(*   last_decide whether the last decide() task that ran posted a request  *)
(*               ("sent") or found the oracle busy ("skipped") (a record   *)
(*               of the run, read by no operation)                         *)
(*   ticked      ids whose tick() the last update called, in call order    *)
(*               (a record of the run, read by no operation)               *)
(*   probe       the last call made from outside the loop of               *)
(*               Simulation.run: a graph built for a zone list, a find on  *)
(*               it, a call of Agent.assign, a tick with the needs set     *)
(*               beforehand; with the arguments and the result (read by    *)
(*               no operation)                                             *)
(***************************************************************************)
VARIABLES agents, tick_count, busy, raw, spawned, inflight, prompted,
          last_round, last_decide, ticked, probe

vars == <<agents, tick_count, busy, raw, spawned, inflight, prompted,
          last_round, last_decide, ticked, probe>>

NoCall == [op |-> "none"]

brain_vars == <<busy, raw, inflight, prompted, last_round>>

Needs(h, e, s, w) == [hunger |-> h, energy |-> e, social |-> s, work |-> w]

\* random.uniform draws (lines 169-172): the least values, the greatest
\* values and the midpoints of the four ranges
NeedsLow == Needs(5000, 5500, 4500, 4000)

NeedsMid == Needs(6000, 6500, 5750, 5000)

NeedsHigh == Needs(7000, 7500, 7000, 6000)

InitialNeeds ==
    { [A |-> NeedsLow, B |-> NeedsHigh, C |-> NeedsLow],
      [A |-> NeedsHigh, B |-> NeedsLow, C |-> NeedsMid] }

\* World.__init__ and Brain.__init__
Init ==
    /\ \E n \in InitialNeeds : agents = [id \in AgentIds |-> NewAgent(id, n[id])]
    /\ tick_count = 0
    /\ busy = FALSE
    /\ raw = <<>>
    /\ spawned = FALSE
    /\ inflight = 0
    /\ prompted = {}
    /\ last_round = [result |-> "none", steps |-> <<>>]
    /\ last_decide = "none"
    /\ ticked = <<>>
    /\ probe = NoCall

\* update made to wait for the oracle: no tick while a request is out
update_blocking(limit) ==
    /\ ~busy
    /\ tick_count < limit
    /\ ~spawned
    /\ tick_count' = tick_count + 1
    /\ agents' = [id \in AgentIds |-> tick(agents[id])]
    /\ ticked' = AgentOrder
    /\ spawned' = ((tick_count + 1) % AI_THINK_INTERVAL = 0)
    /\ UNCHANGED <<brain_vars, last_decide, probe>>

\* One pass of the loop of Simulation.run up to its "await asyncio.sleep(0)":
\* World.update, then a decide() task is created when the tick count is a
\* multiple of AI_THINK_INTERVAL.  A created task runs during that sleep, so
\* the next pass starts after it has run.
update(limit) ==
    /\ tick_count < limit
    /\ ~spawned
    /\ tick_count' = tick_count + 1
    /\ agents' = [id \in AgentIds |-> tick(agents[id])]
    /\ ticked' = AgentOrder
    /\ spawned' = ((tick_count + 1) % AI_THINK_INTERVAL = 0)
    /\ UNCHANGED <<brain_vars, last_decide, probe>>

\* decide without the test of the busy flag
decide_unguarded ==
    /\ spawned
    /\ spawned' = FALSE
    /\ last_decide' = "sent"
    /\ busy' = TRUE
    /\ prompted' = {id \in AgentIds : agents[id].alive}
    /\ inflight' = inflight + 1
    /\ UNCHANGED <<raw, last_round>>
    /\ UNCHANGED <<agents, tick_count, ticked, probe>>

\* Brain.decide up to the await in _ask: nothing happens when busy; else the
\* flag is set, the prompt is built and the request is posted
decide ==
    /\ spawned
    /\ spawned' = FALSE
    /\ IF busy
       THEN /\ last_decide' = "skipped"
            /\ UNCHANGED brain_vars
       ELSE /\ last_decide' = "sent"
            /\ busy' = TRUE
            /\ prompted' = {id \in AgentIds : agents[id].alive}
            /\ inflight' = inflight + 1
            /\ UNCHANGED <<raw, last_round>>
    /\ UNCHANGED <<agents, tick_count, ticked, probe>>

\* failed with the flag cleared on the success path only (no finally)
failed_without_finally(kind) ==
    /\ inflight > 0
    /\ inflight' = inflight - 1
    /\ raw' = (IF kind = "http" THEN HttpError ELSE TimeoutError)
    /\ last_round' = [result |-> kind, steps |-> <<>>]
    /\ busy' = busy
    /\ UNCHANGED <<agents, tick_count, spawned, prompted, last_decide, ticked,
                   probe>>

\* Brain.decide from the await on, when _ask raises: RuntimeError("HTTP 500")
\* for a status that is not 200, asyncio.TimeoutError when LLM_TIMEOUT expires
failed(kind) ==
    /\ inflight > 0
    /\ inflight' = inflight - 1
    /\ raw' = (IF kind = "http" THEN HttpError ELSE TimeoutError)
    /\ last_round' = [result |-> kind, steps |-> <<>>]
    /\ busy' = FALSE
    /\ UNCHANGED <<agents, tick_count, spawned, prompted, last_decide, ticked,
                   probe>>

\* Brain.decide from the await on, when _ask returns text: raw is the text,
\* _parse runs, an exception out of _parse replaces raw by its message, and
\* the finally clause clears the flag
answered(text) ==
    /\ inflight > 0
    /\ inflight' = inflight - 1
    /\ LET r == parse(agents, text)
       IN  /\ agents' = r.agents
           /\ raw' = (IF r.result = "raised" THEN AttributeError ELSE text)
           /\ last_round' = [result |-> r.result, steps |-> r.steps]
    /\ busy' = FALSE
    /\ UNCHANGED <<tick_count, spawned, prompted, last_decide, ticked, probe>>

Tick == update(MaxTick)

Decide == decide

Fail == \E kind \in {"http", "timeout"} : failed(kind)

Answer == \E text \in Responses : answered(text)

Next == Tick \/ Decide \/ Fail \/ Answer

\* every interleaving of ticks and decision rounds over the first MaxTick ticks
Spec == Init /\ [][Next]_vars

LifeTick == update(LifeMaxTick)

LifeAnswer == tick_count >= ServiceFrom /\ Answer

NextLife == LifeTick \/ Decide \/ Fail \/ LifeAnswer

\* the long run: the decision service fails every round that ends before
\* tick ServiceFrom and answers as it likes from then on
SpecLife == Init /\ [][NextLife]_vars

FairTick == update(FairMaxTick)

NextFair == FairTick \/ Decide \/ Fail \/ Answer

\* a posted request finishes: with a response, an error status, or the
\* session's total timeout (line 342)
FairSpec == Init /\ [][NextFair]_vars /\ WF_vars(Fail \/ Answer)

(***************************************************************************)
(* PathGraph on its own: graphs are built for zone lists other than the    *)
(* world's, and find is called on them.                                    *)
(***************************************************************************)
\* the zones of zs at the indexes I, in list order
Pick(zs, I) ==
    [k \in 1..Cardinality(I) |->
        zs[CHOOSE i \in I : Cardinality({j \in I : j < i}) = k - 1]]

\* two towns of five zones each, so far apart that the four nearest zones
\* of every zone are those of its own town
TwoTowns ==
    << MkZone("w1", "home", 0, 0, 20, 20),
       MkZone("w2", "home", 100, 0, 20, 20),
       MkZone("w3", "work", 0, 100, 20, 20),
       MkZone("w4", "cafe", 100, 100, 20, 20),
       MkZone("w5", "park", 40, 50, 20, 20),
       MkZone("e1", "home", 5000, 0, 20, 20),
       MkZone("e2", "home", 5100, 0, 20, 20),
       MkZone("e3", "work", 5000, 100, 20, 20),
       MkZone("e4", "cafe", 5100, 100, 20, 20),
       MkZone("e5", "park", 5040, 50, 20, 20) >>

\* ten zones in a row, evenly spaced: every zone has two zones at each
\* distance, and the ends are three hops apart
Street ==
    [i \in 1..Len(TwoTowns) |->
        MkZone(TwoTowns[i].name, TwoTowns[i].type, 100 * i, 0, 20, 20)]

\* the zone lists graphs are built for: the world's zones and every
\* selection of two or more of them, the two towns, the street, and the two
\* towns less one zone
ZoneSets ==
    {Pick(Zones, I) : I \in {J \in SUBSET (1..Len(Zones)) : Cardinality(J) >= 2}}
        \cup {TwoTowns, Street}
        \cup {Pick(TwoTowns, (1..Len(TwoTowns)) \ {i}) : i \in 1..Len(TwoTowns)}

\* PathGraph(zs)
BuildGraph ==
    /\ probe.op = "none"
    /\ \E zs \in ZoneSets :
           probe' = [op |-> "graph", zones |-> zs, pos |-> GraphPos(zs),
                     adj |-> GraphAdj(zs)]
    /\ UNCHANGED <<agents, tick_count, brain_vars, spawned, last_decide, ticked>>

\* graph.find(start, end) on the graph built
CallFind ==
    /\ probe.op = "graph"
    /\ \E start \in DOMAIN probe.pos : \E end \in DOMAIN probe.pos :
           probe' = [op |-> "find", zones |-> probe.zones, pos |-> probe.pos,
                     adj |-> probe.adj, start |-> start, end |-> end,
                     path |-> Find(probe.pos, probe.adj, start, end)]
    /\ UNCHANGED <<agents, tick_count, brain_vars, spawned, last_decide, ticked>>

NextGraph == BuildGraph \/ CallFind

SpecGraph == Init /\ [][NextGraph]_vars

(***************************************************************************)
(* Agent.assign called directly, with any goal and any target, on an agent *)
(* in a state the simulation has brought it to.  The simulation runs with  *)
(* every response or failure coming in the loop pass that sent the         *)
(* request; nothing follows the call.                                      *)
(***************************************************************************)
ApiTick == probe.op = "none" /\ update(ApiMaxTick)

ApiDecide == probe.op = "none" /\ decide

ApiFail == probe.op = "none" /\ tick_count % AI_THINK_INTERVAL = 0 /\ Fail

ApiAnswer == probe.op = "none" /\ tick_count % AI_THINK_INTERVAL = 0 /\ Answer

\* what assign can be passed as target: a zone of the world or None
Targets == Range(ZoneNames(Zones)) \cup {None}

\* agents[id].assign(goal, target)
CallAssign ==
    /\ probe.op = "none"
    /\ \E id \in AgentIds : \E goal \in Goal : \E target \in Targets :
           /\ agents' = [agents EXCEPT ![id] = assign(@, goal, target)]
           /\ probe' = [op |-> "assign", id |-> id, goal |-> goal,
                         target |-> target, before |-> agents[id]]
    /\ UNCHANGED <<tick_count, brain_vars, spawned, last_decide, ticked>>

NextApi == ApiTick \/ ApiDecide \/ ApiFail \/ ApiAnswer \/ CallAssign

SpecApi == Init /\ [][NextApi]_vars

(***************************************************************************)
(* Held needs.  One agent of the world, the subject, has its needs written *)
(* from outside before each call of its tick, which is how a need is held  *)
(* at a value while _decay and _zone_effect act on it.  probe names the    *)
(* subject and its diet, counts the calls and keeps the subject as the     *)
(* last call found it.   A fed subject starts at or near full health and  *)
(* is given needs around the critical threshold; a starved subject starts  *)
(* frail and is given needs of which at least one is critical.             *)
(***************************************************************************)
\* after _decay every need is exactly at the threshold
AtThreshold ==
    Needs(CRITICAL + NEED_DECAY, CRITICAL + NEED_DECAY,
          CRITICAL + NEED_DECAY, CRITICAL + NEED_DECAY)

FedNeeds ==
    { NeedsHigh,
      AtThreshold,
      [AtThreshold EXCEPT !.social = CRITICAL + NEED_DECAY - 1] }

StarvedNeeds ==
    { [NeedsHigh EXCEPT !.hunger = 0],
      [NeedsHigh EXCEPT !.hunger = 0, !.work = 0],
      [NeedsHigh EXCEPT !.social = NEED_DECAY - 1, !.work = 0],
      [NeedsHigh EXCEPT !.hunger = 2 * NEED_DECAY, !.work = 0],
      [NeedsHigh EXCEPT !.work = CRITICAL - 1] }

HeldNeeds == [fed |-> FedNeeds, starved |-> StarvedNeeds]

HeldHealths ==
    [fed |-> {MAX_HEALTH, MAX_HEALTH - HeldDeficit},
     starved |-> {HEALTH_LOSS, HEALTH_LOSS + 1, HeldFrail}]

\* the subject at home, or just sent to the cafe
HeldStarts(id) ==
    { NewAgent(id, NeedsMid), assign(NewAgent(id, NeedsMid), "go_cafe", "cafe") }

InitHeld ==
    /\ \E id \in AgentIds : \E diet \in DOMAIN HeldNeeds :
       \E a \in HeldStarts(id) : \E h \in HeldHealths[diet] :
           /\ agents = [i \in AgentIds |->
                           IF i = id THEN [a EXCEPT !.health = h]
                           ELSE NewAgent(i, NeedsMid)]
           /\ probe = [op |-> "held", id |-> id, diet |-> diet, n |-> 0,
                       before |-> [a EXCEPT !.health = h]]
    /\ tick_count = 0
    /\ busy = FALSE
    /\ raw = <<>>
    /\ spawned = FALSE
    /\ inflight = 0
    /\ prompted = {}
    /\ last_round = [result |-> "none", steps |-> <<>>]
    /\ last_decide = "none"
    /\ ticked = <<>>

\* the needs of the subject are written, then its tick is called
HeldTick ==
    /\ probe.op = "held"
    /\ probe.n < HeldMaxTick
    /\ \E n \in HeldNeeds[probe.diet] :
           /\ agents' = [agents EXCEPT ![probe.id] = tick([@ EXCEPT !.needs = n])]
           /\ probe' = [probe EXCEPT !.n = @ + 1,
                                     !.before = [agents[probe.id] EXCEPT !.needs = n]]
    /\ UNCHANGED <<tick_count, brain_vars, spawned, last_decide, ticked>>

NextHeld == HeldTick

SpecHeld == InitHeld /\ [][NextHeld]_vars /\ WF_vars(HeldTick)

(***************************************************************************)
(* Routes to their end.  The loop runs for RouteMaxTick ticks; the         *)
(* decision service answers the rounds up to tick RouteServiceUntil and    *)
(* fails every later one, so that every route given has the ticks to end.  *)
(* A response or failure arrives in a loop pass that spawns a round.  The  *)
(* service has further texts, which send A and B elsewhere while they are  *)
(* on their way to work.                                                   *)
(***************************************************************************)
RouteResponses ==
    Responses \cup
    { <<Obj(<<Entry("A", GoalAct("go_home"))>>)>>,
      <<Obj(<<Entry("B", GoalAct("go_cafe"))>>)>> }

RouteTick == update(RouteMaxTick)

RouteFail == tick_count % AI_THINK_INTERVAL = 0 /\ Fail

RouteAnswer ==
    /\ tick_count % AI_THINK_INTERVAL = 0
    /\ tick_count <= RouteServiceUntil
    /\ \E text \in RouteResponses : answered(text)

NextRoute == RouteTick \/ Decide \/ RouteFail \/ RouteAnswer

\* the loop keeps running, a created task runs at the next sleep(0), and a
\* posted request finishes
SpecRoute ==
    /\ Init
    /\ [][NextRoute]_vars
    /\ WF_vars(RouteTick)
    /\ WF_vars(Decide)
    /\ WF_vars(RouteFail \/ RouteAnswer)

(***************************************************************************)
(* Properties.                                                             *)
(***************************************************************************)

\* C1: in every reachable state every need of every agent is within
\* [0, 10] and every agent's health is within [0, 100].
NeedsAndHealthInRange ==
    \A id \in AgentIds :
        /\ \A k \in DOMAIN agents[id].needs :
               0 <= agents[id].needs[k] /\ agents[id].needs[k] <= NEED_MAX
        /\ 0 <= agents[id].health /\ agents[id].health <= MAX_HEALTH

\* an agent whose need was floored at 0, whose need was capped at 10 and
\* whose health was set to 0, after a decision round was parsed
ClampsActed ==
    /\ last_round.result = "parsed"
    /\ \E id \in AgentIds :
           /\ agents[id].health = 0
           /\ agents[id].needs.work = 0
           /\ agents[id].needs.energy = NEED_MAX

\* C2: once an agent is dead, no tick and no decision round changes it (its
\* needs, position, goal, target and path among the rest), whenever the
\* round's request was sent.
DeadAgentsFrozen ==
    [][\A id \in AgentIds : ~agents[id].alive => agents'[id] = agents[id]]_vars

\* a round named an agent that was alive when the request was sent and dead
\* when the response came
LateAnswerNamedDead ==
    \E i \in 1..Len(last_round.steps) :
        /\ last_round.steps[i].outcome = "dead"
        /\ last_round.steps[i].aid \in prompted

\* C3: at most one request is in flight, and a decide() that runs while the
\* oracle is busy sends nothing and leaves the flag, the raw text and every
\* agent as they were.
OneRequestAtATime ==
    [][/\ inflight <= 1 /\ inflight' <= 1
       /\ (spawned /\ ~spawned' /\ busy) =>
              UNCHANGED <<busy, raw, inflight, prompted, last_round, agents,
                          tick_count>>]_vars

\* a decide() task ran while the request of an earlier one was still out
DecideSkippedWhileBusy == last_decide = "skipped" /\ busy /\ inflight = 1

\* C4: every round that sets the busy flag clears it again, however the
\* request ends.
BusyReturnsToIdle == busy ~> ~busy

\* the oracle is idle again after a round that timed out
IdleAfterTimeout == ~busy /\ last_round.result = "timeout"

\* the step adds one to the tick count and ticks every agent once, in order
OneTickEach ==
    /\ tick_count' = tick_count + 1
    /\ ticked' = <<"A", "B", "C">>
    /\ \A id \in AgentIds : agents'[id] = tick(agents[id])

\* C5: the tick is enabled in every oracle state, and each update adds one
\* to the tick count and ticks every agent once, in the order A, B, C.
\* (whatever the oracle state, short of the horizon and once a created
\* decide() task has run, a tick with that effect can be taken and no other
\* tick can)
TickNeverBlocked ==
    (~spawned /\ tick_count < MaxTick) =>
        /\ ENABLED (Tick /\ OneTickEach)
        /\ ~ENABLED (Tick /\ ~OneTickEach)

\* the world was updated while a request was out
TickedWhileBusy ==
    /\ busy
    /\ tick_count > AI_THINK_INTERVAL
    /\ tick_count % AI_THINK_INTERVAL # 0
    /\ ticked = <<"A", "B", "C">>

\* goal, target, path and path cursor of an agent
Plan(a) == <<a.goal, a.target, a.path, a.path_i>>

\* the object json.loads returns for the match in a text
Data(text) == JsonLoads(ReSearch(text).group)

\* C6: a round that ends with a transport error, with no object found, with
\* text that is no JSON, or with an exception raised while parsing leaves
\* the goal, target, path and path cursor of every agent as they were.
FailedRoundLeavesPlans ==
    [][(/\ inflight' < inflight
        /\ last_round'.result \in {"http", "timeout", "no_match", "bad_json",
                                   "raised"})
          => \A id \in AgentIds : Plan(agents'[id]) = Plan(agents[id])]_vars

\* an entry that names a living known agent with a recognised goal other
\* than idle
ValidEntry(ags, e) ==
    /\ e.key \in AgentIds
    /\ ags[e.key].alive
    /\ e.act.dict
    /\ e.act.has_goal
    /\ StripLower(e.act.goal) \in Goal \ {"idle"}

\* an entry that names an unknown id or a dead agent, or carries an
\* unrecognised goal or the goal idle
BadEntry(ags, e) ==
    \/ e.key \notin AgentIds
    \/ ~ags[e.key].alive
    \/ /\ e.act.dict
       /\ (~e.act.has_goal \/ StripLower(e.act.goal) \notin Goal \ {"idle"})

RECURSIVE ApplyValid(_, _)
\* the agents after assign was called for every valid entry, in order
ApplyValid(ags, entries) ==
    IF entries = <<>> THEN ags
    ELSE LET e == Head(entries)
             next == IF ValidEntry(ags, e)
                     THEN [ags EXCEPT ![e.key] =
                              assign(@, StripLower(e.act.goal),
                                     ResolveTarget(@, StripLower(e.act.goal)))]
                     ELSE ags
         IN  IF DOMAIN next = DOMAIN ags THEN ApplyValid(next, Tail(entries))
             ELSE next

\* C7: in a response whose object parses, an entry with an unknown id, a
\* dead agent, an unrecognised goal or the goal idle is skipped without a
\* change and without an exception, every valid entry of the response is
\* applied, and no round turns a goal to idle.
BadEntriesSkippedRestApplied ==
    [][\A text \in Responses :
          (answered(text) /\ Data(text).ok) =>
              /\ \A i \in 1..Len(Data(text).data) :
                     BadEntry(agents, Data(text).data[i]) =>
                         (i <= Len(last_round'.steps) =>
                              last_round'.steps[i].outcome \in
                                  {"unknown", "dead", "no_goal", "idle"})
              /\ agents' = ApplyValid(agents, Data(text).data)
              /\ \A id \in AgentIds :
                     agents'[id].goal = "idle" => agents[id].goal = "idle"]_vars

\* World._make_agents and World._make_zones: each agent's home, and the
\* first zone of each type in list order
OwnHome == [A |-> "home_a", B |-> "home_b", C |-> "home_c"]

FirstOfType == [go_work |-> "office", go_cafe |-> "cafe", go_park |-> "park"]

ExpectedTarget(id, goal) ==
    IF goal = "go_home" THEN OwnHome[id] ELSE FirstOfType[goal]

\* the object of the text has one entry, and it is valid
NamesOne(ags, text) ==
    /\ Data(text).ok
    /\ Len(Data(text).data) = 1
    /\ ValidEntry(ags, Data(text).data[1])

\* a round whose response names one living agent with a recognised goal
\* other than idle gives that agent the goal and the resolved target and
\* leaves goal, target and path of the others alone (C8 as stated)
NamedAgentGetsGoal ==
    [][\A text \in Responses :
          (answered(text) /\ NamesOne(agents, text)) =>
              LET id == Data(text).data[1].key
                  goal == StripLower(Data(text).data[1].act.goal)
              IN  /\ agents'[id].goal = goal
                  /\ agents'[id].target = ExpectedTarget(id, goal)
                  /\ \A o \in AgentIds \ {id} :
                         Plan(agents'[o]) = Plan(agents[o])]_vars

\* C8: a round whose response names one living agent with a recognised goal
\* other than idle leaves that agent as it was when it is inside the
\* resolved zone already, and gives it the goal and the resolved target
\* otherwise; goal, target and path of the others are left alone.
NamedAgentGetsGoalUnlessThere ==
    [][\A text \in Responses :
          (answered(text) /\ NamesOne(agents, text)) =>
              LET id == Data(text).data[1].key
                  goal == StripLower(Data(text).data[1].act.goal)
              IN  /\ IF agents[id].zone = ExpectedTarget(id, goal)
                     THEN agents'[id] = agents[id]
                     ELSE /\ agents'[id].goal = goal
                          /\ agents'[id].target = ExpectedTarget(id, goal)
                  /\ \A o \in AgentIds \ {id} :
                         Plan(agents'[o]) = Plan(agents[o])]_vars

\* the round answered {"A": {"goal": "go_cafe"}} inside commentary, and A has
\* the goal, the cafe as target and the path from its home to the cafe, B
\* and C being idle
CafeGoalGiven ==
    /\ last_round = [result |-> "parsed",
                     steps |-> <<Step("A", "assign", "go_cafe", "cafe")>>]
    /\ agents["A"].goal = "go_cafe"
    /\ agents["A"].target = "cafe"
    /\ agents["A"].path = <<Center(ZoneNamed(Zones, "home_a")),
                            Center(ZoneNamed(Zones, "cafe"))>>
    /\ agents["B"].goal = "idle"
    /\ agents["C"].goal = "idle"

\* the zones without those of one type
ZonesWithout(zt) == SelectSeq(Zones, LAMBDA z : z.type # zt)

\* C9: every call of assign by the oracle passes the agent's own home for
\* go_home and the first zone of the goal's type in list order for go_work,
\* go_cafe and go_park; an entry is passed over for want of a target only
\* when no zone resolves, and zone_by_type resolves nothing where no zone
\* of the type exists.
TargetsResolved ==
    /\ \A i \in 1..Len(last_round.steps) :
           LET st == last_round.steps[i]
           IN  /\ st.outcome = "assign" =>
                      /\ st.goal \in DOMAIN ZONE_FOR_GOAL
                      /\ st.target # None
                      /\ st.target = ExpectedTarget(st.aid, st.goal)
                      /\ st.goal = "go_home" =>
                             /\ st.target = agents[st.aid].home
                             /\ \A o \in AgentIds \ {st.aid} :
                                    st.target # agents[o].home
               /\ st.outcome # "no_target"
    /\ \A zt \in ZoneType : zone_by_type(ZonesWithout(zt), zt) = None

\* C was sent home from elsewhere: assign got home_c, not the first home
HomeGoalResolvedToOwnHome ==
    /\ \E i \in 1..Len(last_round.steps) :
           last_round.steps[i] = Step("C", "assign", "go_home", "home_c")
    /\ agents["C"].goal = "go_home"
    /\ agents["C"].target = "home_c"
    /\ zone_by_type(Zones, "home") = "home_a"

\* the text is commentary without braces, then an object, then anything
CommentedObject(text) ==
    \E i \in 1..Len(text) :
        /\ text[i].k = "obj"
        /\ \A j \in 1..(i - 1) : text[j].k = "txt"

\* the entries of the first object of such a text
FirstObject(text) ==
    text[CHOOSE i \in 1..Len(text) :
             /\ text[i].k = "obj"
             /\ \A j \in 1..(i - 1) : text[j].k = "txt"].entries

\* C10: for a text made of commentary, an object and any trailing text, the
\* round applies the goals of the first object.
FirstObjectApplied ==
    [][\A text \in Responses :
          (answered(text) /\ CommentedObject(text)) =>
              agents' = ParseEntries(agents, FirstObject(text), <<>>).agents]_vars

RECURSIVE Within(_, _, _)
\* the zones at most k edges away from a zone of S
Within(adj, S, k) ==
    IF k = 0 THEN S
    ELSE Within(adj, S \cup UNION {Range(adj[n]) : n \in S}, k - 1)

Reachable(adj, a, b) == b \in Within(adj, {a}, Cardinality(DOMAIN adj))

\* the least number of edges from a to b, b reachable from a
Hops(adj, a, b) ==
    CHOOSE k \in 0..Cardinality(DOMAIN adj) :
        /\ b \in Within(adj, {a}, k)
        /\ k = 0 \/ b \notin Within(adj, {a}, k - 1)

\* the zone a point is the center of (the centers of a zone list differ)
ZoneAt(pos, pt) == CHOOSE n \in DOMAIN pos : pos[n] = pt

\* C11: find(z, z) is the one point center(z); find(a, b) is a non-empty
\* sequence of zone centers from a's to b's that follows edges of the graph
\* over the least number of hops when b is reachable from a, and is the two
\* points center(a), center(b) when it is not.
FindShortestOrDirect ==
    probe.op = "find" =>
        LET p == probe.path
            ca == Center(ZoneNamed(probe.zones, probe.start))
            cb == Center(ZoneNamed(probe.zones, probe.end))
        IN  /\ Len(p) >= 1
            /\ p[1] = ca
            /\ p[Len(p)] = cb
            /\ probe.start = probe.end => p = <<ca>>
            /\ \A i \in 1..Len(p) : \E n \in DOMAIN probe.pos : probe.pos[n] = p[i]
            /\ IF Reachable(probe.adj, probe.start, probe.end)
               THEN /\ \A i \in 1..(Len(p) - 1) :
                           Contains(probe.adj[ZoneAt(probe.pos, p[i])],
                                    ZoneAt(probe.pos, p[i + 1]))
                    /\ Len(p) - 1 = Hops(probe.adj, probe.start, probe.end)
               ELSE p = <<ca, cb>>

\* in the world's graph find("home_a", "park") went over the road: two hops,
\* no edge joining the two
ParkOverTheRoad ==
    /\ probe.op = "find"
    /\ probe.zones = Zones
    /\ probe.start = "home_a"
    /\ probe.end = "park"
    /\ probe.path = <<Center(ZoneNamed(Zones, "home_a")),
                      Center(ZoneNamed(Zones, "road")),
                      Center(ZoneNamed(Zones, "park"))>>
    /\ ~Contains(probe.adj["home_a"], "park")

\* b comes before c in the order of a's distances: nearer, or as near and
\* first by name
Before(pos, a, b, c) ==
    LET db == (pos[a][1] - pos[b][1]) * (pos[a][1] - pos[b][1])
                  + (pos[a][2] - pos[b][2]) * (pos[a][2] - pos[b][2])
        dc == (pos[a][1] - pos[c][1]) * (pos[a][1] - pos[c][1])
                  + (pos[a][2] - pos[c][2]) * (pos[a][2] - pos[c][2])
        rank == [n \in DOMAIN pos |->
                    Cardinality({i \in 1..Len(NameOrder) :
                                    \E j \in (i + 1)..Len(NameOrder) :
                                        NameOrder[j] = n})]
    IN  db < dc \/ (db = dc /\ rank[b] < rank[c])

\* the four zones nearest to a (all the others when there are fewer)
NearestTo(pos, a) ==
    {b \in DOMAIN pos \ {a} :
        Cardinality({c \in DOMAIN pos \ {a, b} : Before(pos, a, c, b)}) < NEAREST}

\* the neighbour relation is symmetric, no zone lists itself, and no zone
\* lists more than four zones (C12 as stated)
NeighboursSymmetricAtMostFour ==
    probe.op = "graph" =>
        \A a \in DOMAIN probe.adj :
            /\ \A b \in Range(probe.adj[a]) : Contains(probe.adj[b], a)
            /\ ~Contains(probe.adj[a], a)
            /\ Cardinality(Range(probe.adj[a])) <= NEAREST

\* C12: the neighbour relation is symmetric and no zone lists itself; a
\* zone lists, once each, its four nearest zones and the zones that have it
\* among their four nearest, which can be more than four zones.
NeighboursSymmetricNearest ==
    probe.op = "graph" =>
        \A a \in DOMAIN probe.adj :
            /\ \A b \in Range(probe.adj[a]) : Contains(probe.adj[b], a)
            /\ ~Contains(probe.adj[a], a)
            /\ Range(probe.adj[a]) =
                   NearestTo(probe.pos, a)
                       \cup {b \in DOMAIN probe.pos \ {a} :
                                 a \in NearestTo(probe.pos, b)}
            /\ Len(probe.adj[a]) = Cardinality(Range(probe.adj[a]))

\* the graph of the world's seven zones: road lists the six other zones
\* and home_a five
WorldGraphBuilt ==
    /\ probe.op = "graph"
    /\ probe.zones = Zones
    /\ Len(probe.adj["road"]) = 6
    /\ Len(probe.adj["home_a"]) = 5

\* C13: assign(IDLE, None) on a living agent leaves it with the goal idle,
\* no target and an empty path.
AssignIdleClears ==
    (/\ probe.op = "assign"
     /\ probe.before.alive
     /\ probe.goal = "idle"
     /\ probe.target = None)
        => /\ agents[probe.id].goal = "idle"
           /\ agents[probe.id].target = None
           /\ agents[probe.id].path = <<>>

\* assign(IDLE, None) was called on an agent on its way, and cleared its
\* goal, target and path
IdleAssignedOnTheWay ==
    /\ probe.op = "assign"
    /\ probe.goal = "idle"
    /\ probe.target = None
    /\ probe.before.alive
    /\ probe.before.goal = "go_cafe"
    /\ probe.before.target = "cafe"
    /\ probe.before.path # <<>>
    /\ probe.before.zone = None
    /\ agents[probe.id].goal = "idle"
    /\ agents[probe.id].path = <<>>

\* the call is one assign returns from at line 186 or line 189
NoOpCase(a, goal, target) ==
    \/ a.zone # None /\ target # None /\ a.zone = target
    \/ a.goal = goal /\ a.target = target /\ a.path # <<>>

\* C14: assign with a goal other than idle changes nothing of a living
\* agent that is inside the target zone, or that has this goal and target
\* already and a path that is not empty.
AssignNoOpCases ==
    (/\ probe.op = "assign"
     /\ probe.before.alive
     /\ probe.goal # "idle"
     /\ NoOpCase(probe.before, probe.goal, probe.target))
        => agents[probe.id] = probe.before

\* assign was called with the goal and target of an agent past the first
\* waypoint of its route and outside the target zone, and changed nothing
SameGoalOnTheWay ==
    /\ probe.op = "assign"
    /\ probe.before.alive
    /\ probe.goal = "go_cafe"
    /\ probe.target = "cafe"
    /\ probe.before.goal = "go_cafe"
    /\ probe.before.target = "cafe"
    /\ probe.before.path_i = 1
    /\ probe.before.zone # "cafe"
    /\ agents[probe.id] = probe.before

\* C15: assign(IDLE, target) on a living agent whose goal is idle changes
\* no field of the agent.
AssignIdleWhenIdleNoOp ==
    (/\ probe.op = "assign"
     /\ probe.before.alive
     /\ probe.before.goal = "idle"
     /\ probe.goal = "idle")
        => agents[probe.id] = probe.before

\* the zone a new route starts from
RouteStart(a) == IF a.zone # None THEN a.zone ELSE a.home

\* assign with a goal other than idle that is no no-op case sets goal and
\* target, zeroes the wait counter and the path cursor, and sets the path
\* to find(s, target) (C19 as stated, for any target)
AssignSetsRouteAnyTarget ==
    (/\ probe.op = "assign"
     /\ probe.before.alive
     /\ probe.goal # "idle"
     /\ ~NoOpCase(probe.before, probe.goal, probe.target))
        => /\ agents[probe.id].goal = probe.goal
           /\ agents[probe.id].target = probe.target
           /\ agents[probe.id].wait = 0
           /\ agents[probe.id].path_i = 0
           /\ probe.target # None =>
                  agents[probe.id].path =
                      Find(WorldPos, WorldAdj, RouteStart(probe.before),
                           probe.target)

\* C19: assign with a goal other than idle that is no no-op case sets goal
\* and target and zeroes the wait counter; when the target is a zone it
\* zeroes the path cursor and sets the path to find(s, target), s being the
\* agent's zone or, between zones, its home; when the target is None it
\* leaves path and cursor as they were.
AssignSetsRoute ==
    (/\ probe.op = "assign"
     /\ probe.before.alive
     /\ probe.goal # "idle"
     /\ ~NoOpCase(probe.before, probe.goal, probe.target))
        => /\ agents[probe.id].goal = probe.goal
           /\ agents[probe.id].target = probe.target
           /\ agents[probe.id].wait = 0
           /\ IF probe.target # None
              THEN /\ agents[probe.id].path_i = 0
                   /\ agents[probe.id].path =
                          Find(WorldPos, WorldAdj, RouteStart(probe.before),
                               probe.target)
                   /\ agents[probe.id].path[1] =
                          Center(ZoneNamed(Zones, RouteStart(probe.before)))
                   /\ agents[probe.id].path[Len(agents[probe.id].path)] =
                          Center(ZoneNamed(Zones, probe.target))
              ELSE /\ agents[probe.id].path_i = probe.before.path_i
                   /\ agents[probe.id].path = probe.before.path

\* an agent between zones on its way to the cafe was sent to the park: the
\* new route starts at its home and the cursor is back at 0
RouteFromHomeBetweenZones ==
    /\ probe.op = "assign"
    /\ probe.before.alive
    /\ probe.before.zone = None
    /\ probe.before.goal = "go_cafe"
    /\ probe.before.path_i = 1
    /\ probe.goal = "go_park"
    /\ probe.target = "park"
    /\ agents[probe.id].path_i = 0
    /\ agents[probe.id].path[1] = Center(ZoneNamed(Zones, probe.before.home))
    /\ agents[probe.id].wait = 0

\* the step is a tick in which the agent's cursor moves past the last
\* waypoint of its path
SnapsToLast(id) ==
    /\ tick_count' = tick_count + 1
    /\ agents[id].path # <<>>
    /\ agents[id].path_i + 1 = Len(agents[id].path)
    /\ agents'[id].path_i = agents[id].path_i + 1

\* C18: an agent with a path that is not empty has a goal other than idle,
\* and the tick in which the agent snaps to the last waypoint of its path
\* leaves the path empty and the goal idle.
PathOnlyWithGoal ==
    [][\A id \in AgentIds :
          /\ agents[id].path # <<>> => agents[id].goal # "idle"
          /\ agents'[id].path # <<>> => agents'[id].goal # "idle"
          /\ SnapsToLast(id) =>
                 /\ agents'[id].path = <<>>
                 /\ agents'[id].goal = "idle"
                 /\ agents'[id].pos =
                        <<Px(agents[id].path[Len(agents[id].path)][1]),
                          Px(agents[id].path[Len(agents[id].path)][2])>>]_vars

\* A has this tick snapped to the center of the cafe, the last waypoint of
\* its route from home_a
ArrivedAndIdle ==
    /\ agents["A"].pos = <<Px(Center(ZoneNamed(Zones, "cafe"))[1]),
                           Px(Center(ZoneNamed(Zones, "cafe"))[2])>>
    /\ agents["A"].path = <<>>
    /\ agents["A"].goal = "idle"
    /\ agents["A"].target = "cafe"
    /\ agents["A"].path_i = 2
    /\ agents["A"].wait = 1

\* C20: whenever the path of an agent is not empty, the path cursor is at
\* least 0 and less than the length of the path.
CursorInPath ==
    \A id \in AgentIds :
        agents[id].path # <<>> =>
            /\ 0 <= agents[id].path_i
            /\ agents[id].path_i < Len(agents[id].path)

\* B is on the last leg of its route of three waypoints: the cursor is at
\* the last index
OnLastLeg ==
    /\ Len(agents["B"].path) = 3
    /\ agents["B"].path_i = 2
    /\ agents["B"].goal = "go_work"
    /\ agents["B"].alive

\* the subject of a held-needs run
Subject == agents[probe.id]

AllAbove(n) == \A k \in DOMAIN n : n[k] >= CRITICAL

\* C16: a tick of a living agent that finds all four needs at or above the
\* critical threshold leaves the agent alive with its health not lower than
\* before, one regeneration step higher up to the maximum; and the health of
\* an agent whose needs are at or above the threshold on every tick
\* eventually is at the maximum and stays there.
FedAgentRecovers ==
    /\ [](probe.op = "held" /\ probe.n > 0 /\ probe.before.alive
              /\ AllAbove(Subject.needs)
           => /\ Subject.alive
              /\ Subject.health >= probe.before.health
              /\ Subject.health = Min(MAX_HEALTH, probe.before.health + HEALTH_REGEN))
    /\ ([](probe.op = "held" /\ probe.n > 0 => AllAbove(Subject.needs))
           => <>[](Subject.alive /\ Subject.health = MAX_HEALTH))

\* a fed agent that started below full health is back at the maximum, the
\* last tick having found every need exactly at the threshold
RecoveredAtThreshold ==
    /\ probe.op = "held"
    /\ probe.diet = "fed"
    /\ probe.n = HeldDeficit + 1
    /\ probe.before.health = MAX_HEALTH
    /\ Subject.health = MAX_HEALTH
    /\ Subject.alive
    /\ Subject.zone = None
    /\ \A k \in DOMAIN Subject.needs : Subject.needs[k] = CRITICAL

NeedRank(k) == CHOOSE i \in 1..Len(NeedKeys) : NeedKeys[i] = k

\* the first need, in the order hunger, energy, social, work, that holds
\* the least value of n
FirstLowest(n) ==
    CHOOSE k \in DOMAIN n :
        /\ \A j \in DOMAIN n : n[k] <= n[j]
        /\ \A j \in DOMAIN n : n[j] = n[k] => NeedRank(k) <= NeedRank(j)

JustDied == probe.op = "held" /\ probe.n > 0 /\ probe.before.alive /\ ~Subject.alive

\* C17: an agent with a need at 0 on every tick eventually is dead, every
\* tick that finds a critical need and leaves it alive lowering its health;
\* the tick in which it dies sets health to 0, empties the path and records as death
\* reason the name of the first of the needs holding the least value at
\* that tick; a dead agent stays as it is: not alive, with the same health
\* and the same death reason.
StarvedAgentDiesOnce ==
    /\ \A k \in {"hunger", "energy", "social", "work"} :
           [](probe.op = "held" /\ probe.n > 0 => Subject.needs[k] = 0)
              => <>(~Subject.alive)
    /\ [](probe.op = "held" /\ probe.n > 0 /\ probe.before.alive /\ Subject.alive
              /\ ~AllAbove(Subject.needs)
           => Subject.health < probe.before.health)
    /\ [](JustDied =>
              /\ Subject.health = 0
              /\ Subject.path = <<>>
              /\ Subject.death_reason = NEED_NAMES[FirstLowest(Subject.needs)])
    /\ [](probe.op = "held" /\ probe.n > 0 /\ ~probe.before.alive =>
              Subject = probe.before)

\* the subject died on its way to the cafe with social and work both at 0,
\* the least value: the reason is social, the earlier of the two
DiedOnTheWayOfTie ==
    /\ JustDied
    /\ probe.before.path # <<>>
    /\ Subject.path = <<>>
    /\ Subject.needs.social = 0
    /\ Subject.needs.work = 0
    /\ Subject.needs.hunger > 0
    /\ Subject.death_reason = NEED_NAMES["social"]
    /\ Subject.health = 0

Travelling(id) == agents[id].alive /\ agents[id].path # <<>>

\* the agent stands idle on the center of its target zone, its path empty
Arrived(id) ==
    /\ agents[id].path = <<>>
    /\ agents[id].goal = "idle"
    /\ agents[id].target # None
    /\ agents[id].pos = <<Px(Center(ZoneNamed(Zones, agents[id].target))[1]),
                          Px(Center(ZoneNamed(Zones, agents[id].target))[2])>>

\* the last round that finished called assign on the agent
GoalGiven(id) ==
    \E i \in 1..Len(last_round.steps) :
        /\ last_round.steps[i].aid = id
        /\ last_round.steps[i].outcome = "assign"

\* the step is a round that gives the travelling agent the goal and target
\* it has, and nothing else
SameGoalAgain(id) ==
    /\ inflight' < inflight
    /\ Travelling(id)
    /\ GoalGiven(id)'
    /\ \A i \in 1..Len(last_round'.steps) :
           (last_round'.steps[i].aid = id /\ last_round'.steps[i].outcome = "assign")
              => /\ last_round'.steps[i].goal = agents[id].goal
                 /\ last_round'.steps[i].target = agents[id].target

\* C21: in a run in which the rounds stop giving goals, a living agent with
\* a path that is not empty eventually stands idle with an empty path on
\* the center of its target zone, or is dead; and a round that gives a
\* travelling agent the goal and target it already has leaves the agent,
\* its path, cursor and position included, as it was.
RouteEnds ==
    /\ \A id \in {"A", "B", "C"} :
           Travelling(id) ~> (~agents[id].alive \/ Arrived(id))
    /\ [][\A id \in AgentIds : SameGoalAgain(id) => agents'[id] = agents[id]]_vars

\* B, sent to work at tick 90 and given the same goal again by the round
\* of tick 180 while between home_a and the office, has this tick snapped
\* to the center of the office, at the tick a route from home_b started at
\* tick 90 ends
ArrivedAfterSameGoalAgain ==
    /\ Arrived("B")
    /\ agents["B"].target = "office"
    /\ agents["B"].path_i = 3
    /\ agents["B"].wait = 1
    /\ agents["B"].alive
    /\ tick_count > RouteServiceUntil
    /\ tick_count < RouteServiceUntil + AI_THINK_INTERVAL
    /\ inflight = 0
    /\ GoalGiven("B")

=============================================================================
